---- MODULE Spec2Model ----
(***************************************************************************)
(* hole_tiled (src/src/kfactory/utils/hole.py): a periodic lattice of hole *)
(* cells is stamped tile by tile into a scratch layout and subtracted from *)
(* the first non-empty layer of the hole cell in the target cell.          *)
(*                                                                         *)
(* Geometry is on the integer dbu grid.  A region is a set of pixels; the  *)
(* pixel <<x, y>> is the unit square [x, x+1] x [y, y+1].  A user unit is  *)
(* dbuDen dbu (dbu = 1/dbuDen), and a spacing is x_space/Sub user units,   *)
(* so that spacings that are not multiples of dbu exist.                   *)
(***************************************************************************)
EXTENDS Integers, Sequences, FiniteSets, TLC

\* ------------------------------------------------------------------ bounds
NumLayers == 3
MaxThreads == 2
Sub == 4
MaxSpace == 5
MaxKeepout == 2
FrameLen == 240

\* ------------------------------------------------------- program constants
TileFactor == 100
TileBorder == 20

Layers == 1..NumLayers
None == 0

VARIABLES
    dbuDen,          \* c.kcl.dbu = 1/dbuDen user units
    hcell,           \* hole_cell: layer -> shapes (pixels)
    orig,            \* the target cell's shapes before the call
    top,             \* the target cell's shapes (c / top_cell)
    hole_layers,     \* sequence of <<layer, keepout>>
    hole_regions,    \* sequence of <<region, keepout>>
    exclude_layers,
    exclude_regions,
    x_space,         \* numerator over Sub, user units
    y_space,
    n_threads,       \* config.n_threads
    bindLast,        \* how the dispatcher resolves a name registered twice
    pc,              \* position in hole_tiled
    frame,           \* tp.frame, in dbu
    tile_size,       \* <<width, height>> of a tile in dbu
    tp_inputs,       \* dispatcher inputs: sequence of <<name, source>>
    row_step,
    col_step,
    hc_bbox,
    queue_str,       \* the queued expression
    temp_hc,         \* scratch copy of the hole cell
    buf,             \* scratch top cell: stamped instances (lattice points)
    tempDepth,       \* temp_ly start_changes not yet ended
    hostDepth,       \* c.kcl start_changes not yet ended
    pending,         \* tiles not yet handed to a worker
    thr,             \* per worker: stage, tile, region handed to put, snapshot
    target_layer,
    hole_pattern,
    original_region,
    final_region,
    warnings,        \* number of logger.warning calls
    exc,             \* exception raised out of hole_tiled ("none" if not)
    insertCalls,     \* number of insert_holes calls
    tilesDone        \* tiles whose callback has returned

inputVars == <<dbuDen, hcell, orig, hole_layers, hole_regions, exclude_layers,
               exclude_regions, x_space, y_space, n_threads, bindLast>>
setupVars == <<frame, tile_size, tp_inputs, row_step, col_step, hc_bbox,
               queue_str, temp_hc>>
finalVars == <<target_layer, hole_pattern, original_region, final_region>>
vars == <<inputVars, setupVars, finalVars, top, pc, buf, tempDepth, hostDepth,
          pending, thr, warnings, exc, insertCalls, tilesDone>>

\* ---------------------------------------------------------------- geometry
Box(x1, y1, x2, y2) == [x1 |-> x1, y1 |-> y1, x2 |-> x2, y2 |-> y2]

EmptyBox == Box(1, 1, -1, -1)

BoxEmpty(b) == b.x2 < b.x1 \/ b.y2 < b.y1

Width(b) == IF BoxEmpty(b) THEN 0 ELSE b.x2 - b.x1

Height(b) == IF BoxEmpty(b) THEN 0 ELSE b.y2 - b.y1

Pixels(b) == {<<x, y>> : x \in b.x1..(b.x2 - 1), y \in b.y1..(b.y2 - 1)}

SetMin(S) == CHOOSE a \in S : \A b \in S : a <= b

SetMax(S) == CHOOSE a \in S : \A b \in S : a >= b

Bbox(R) ==
    IF R = {} THEN EmptyBox
    ELSE LET xs == {p[1] : p \in R}
             ys == {p[2] : p \in R}
         IN Box(SetMin(xs), SetMin(ys), SetMax(xs) + 1, SetMax(ys) + 1)

\* Box.new sorts its corner coordinates
BoxNew(x1, y1, x2, y2) ==
    Box(IF x1 <= x2 THEN x1 ELSE x2, IF y1 <= y2 THEN y1 ELSE y2,
        IF x1 <= x2 THEN x2 ELSE x1, IF y1 <= y2 THEN y2 ELSE y1)

\* box += box: the bounding box of both
BoxJoin(a, b) ==
    IF BoxEmpty(a) THEN b
    ELSE IF BoxEmpty(b) THEN a
    ELSE Box(IF a.x1 <= b.x1 THEN a.x1 ELSE b.x1,
             IF a.y1 <= b.y1 THEN a.y1 ELSE b.y1,
             IF a.x2 >= b.x2 THEN a.x2 ELSE b.x2,
             IF a.y2 >= b.y2 THEN a.y2 ELSE b.y2)

Enlarged(b, d) ==
    IF BoxEmpty(b) THEN b ELSE Box(b.x1 - d, b.y1 - d, b.x2 + d, b.y2 + d)

MinkowskiSum(a, b) == Box(a.x1 + b.x1, a.y1 + b.y1, a.x2 + b.x2, a.y2 + b.y2)

\* region.sized(d), d >= 0: every pixel within d of the region
Sized(R, d) ==
    UNION {{<<p[1] + i, p[2] + j>> : i \in (-d)..d, j \in (-d)..d} : p \in R}

Shifted(R, dx, dy) == {<<p[1] + dx, p[2] + dy>> : p \in R}

AllShapes(cell) == UNION {cell[l] : l \in Layers}

\* c.kcl.to_dbu(size): user units to dbu
ToDbu(size) == size * dbuDen

\* int(space / dbu): truncation of a non-negative quotient
IntSpace(space) == (space * dbuDen) \div Sub

\* round(n / d) for n >= 0, d > 0 (the dispatcher puts the tile size on the grid)
RoundDiv(n, d) == (2 * n + d) \div (2 * d)

InBox(p, b) == b.x1 <= p[1] /\ p[1] < b.x2 /\ b.y1 <= p[2] /\ p[2] < b.y2

\* ------------------------------------------------- hole_tiled: preparation
\* dbb = c.dbbox(); for r, ext in hole_regions: dbb += r.bbox()...enlarged(ext)
RECURSIVE FrameOf(_, _, _)
FrameOf(dbb, regions, i) ==
    IF i > Len(regions) THEN dbb
    ELSE FrameOf(BoxJoin(dbb, Enlarged(Bbox(regions[i][1]), ToDbu(regions[i][2]))),
                 regions, i + 1)

\* tile_size = (100 * (dbbox().width() + x_space), 100 * (dbbox().height() + y_space))
TileSizeOf(bbox, xsp, ysp) ==
    <<RoundDiv(TileFactor * (Width(bbox) * Sub + xsp * dbuDen), Sub),
      RoundDiv(TileFactor * (Height(bbox) * Sub + ysp * dbuDen), Sub)>>

LayerName(l) == <<"layer", l>>

RegionName(i) == <<"region", i>>

\* the four tp.input loops, in the order of the code
InputsOf(hl, hr, el, er) ==
    [i \in 1..Len(hl) |-> <<LayerName(hl[i][1]), <<"layer", hl[i][1]>>>>]
    \o [i \in 1..Len(hr) |-> <<RegionName(i - 1), <<"region", hr[i][1]>>>>]
    \o [i \in 1..Len(el) |-> <<LayerName(el[i][1]), <<"layer", el[i][1]>>>>]
    \o [i \in 1..Len(er) |-> <<RegionName(i - 1), <<"region", er[i][1]>>>>]

RowStepOf(bbox, xsp) == <<Width(bbox) + IntSpace(xsp), 0>>

ColStepOf(bbox, ysp) == <<0, Height(bbox) + IntSpace(ysp)>>

\* name + ".sized(to_dbu(size))" if size else name; a term is <<name, growth>>
SizedTerm(name, size) == <<name, IF size # 0 THEN ToDbu(size) ELSE 0>>

HoleLayerTerms(hl) == [i \in 1..Len(hl) |-> SizedTerm(LayerName(hl[i][1]), hl[i][2])]

HoleRegionTerms(hr) == [i \in 1..Len(hr) |-> SizedTerm(RegionName(i - 1), hr[i][2])]

ExLayerTerms(el) == [i \in 1..Len(el) |-> SizedTerm(LayerName(el[i][1]), el[i][2])]

ExRegionTerms(er) == [i \in 1..Len(er) |-> SizedTerm(RegionName(i - 1), er[i][2])]

NoQueue == [hole |-> <<>>, exclude |-> <<>>, hasExclude |-> FALSE,
            kernel |-> EmptyBox]

\* queue_str: var hole = ...; var exclude = ...;
\* hole_region = _tile.minkowski_sum(Box.new(0,0,w-1,h-1)) & _frame & hole - exclude
QueueOf(hl, hr, el, er, bbox) ==
    [hole |-> HoleLayerTerms(hl) \o HoleRegionTerms(hr),
     exclude |-> ExLayerTerms(el) \o ExRegionTerms(er),
     hasExclude |-> Len(el) > 0 \/ Len(er) > 0,
     kernel |-> BoxNew(0, 0, Width(bbox) - 1, Height(bbox) - 1)]

\* the guard tests that the name lists exist instead of their content
InputListsExist == Len(hole_layers) >= 0 \/ Len(hole_regions) >= 0

\* if layer_names or region_names
HasHoleInputs == Len(hole_layers) > 0 \/ Len(hole_regions) > 0

\* ------------------------------------------------------ the tile dispatcher
TileBox(f, ts, t) ==
    LET w == IF ts[1] = 0 THEN Width(f) ELSE ts[1]
        h == IF ts[2] = 0 THEN Height(f) ELSE ts[2]
    IN Box(f.x1 + t[1] * w, f.y1 + t[2] * h,
           f.x1 + (t[1] + 1) * w, f.y1 + (t[2] + 1) * h)

\* the tiles <<ix, iy>> that cover the frame, from its lower-left corner
TileIndices(f, ts) ==
    IF BoxEmpty(f) \/ Width(f) = 0 \/ Height(f) = 0 THEN {}
    ELSE LET nx == IF ts[1] = 0 THEN 1 ELSE (Width(f) + ts[1] - 1) \div ts[1]
             ny == IF ts[2] = 0 THEN 1 ELSE (Height(f) + ts[2] - 1) \div ts[2]
         IN {<<ix, iy>> : ix \in 0..(nx - 1), iy \in 0..(ny - 1)}

\* tiles are handed out in row-major order
NextTile(S) ==
    CHOOSE t \in S : \A u \in S : t[2] < u[2] \/ (t[2] = u[2] /\ t[1] <= u[1])

\* the input a name of the expression is bound to
Lookup(inputs, name, last) ==
    LET idx == {i \in 1..Len(inputs) : inputs[i][1] = name}
    IN inputs[IF last THEN SetMax(idx) ELSE SetMin(idx)][2]

\* the shapes of an input seen from a tile: those within the tile and its border
TileInput(src, cell, tile) ==
    LET R == IF src[1] = "layer" THEN cell[src[2]] ELSE src[2]
        view == Enlarged(tile, TileBorder * dbuDen)
    IN {p \in R : InBox(p, view)}

EvalTerms(terms, inputs, cell, tile, last) ==
    UNION {Sized(TileInput(Lookup(inputs, terms[i][1], last), cell, tile), terms[i][2])
           : i \in 1..Len(terms)}

\* the queued expression evaluated for one tile
EvalQueue(q, inputs, cell, f, tile, last) ==
    LET H == EvalTerms(q.hole, inputs, cell, tile, last)
        X == IF q.hasExclude THEN EvalTerms(q.exclude, inputs, cell, tile, last)
             ELSE {}
        D == MinkowskiSum(tile, q.kernel)
    IN {p \in H : InBox(p, D) /\ InBox(p, f)} \ X

\* ------------------------------------------------------ HoleProcessor.put
\* fill_region: the lattice points origin + i*row_step + j*column_step whose
\* footprint (fc_bbox moved there) lies inside the region
Stamp(region, tile) ==
    IF Width(hc_bbox) = 0 \/ Height(hc_bbox) = 0 \/ row_step[1] <= 0 \/ col_step[2] <= 0
    THEN {}
    ELSE {p \in region :
            /\ (p[1] - tile.x1) % row_step[1] = 0
            /\ (p[2] - tile.y1) % col_step[2] = 0
            /\ \A q \in Pixels(Box(p[1], p[2], p[1] + Width(hc_bbox),
                                   p[2] + Height(hc_bbox))) : q \in region}

\* temp_tc.begin_shapes_rec(layer): the hole cell's shapes at every instance
PatternOf(instances, layer) ==
    UNION {Shifted(temp_hc[layer], p[1] - hc_bbox.x1, p[2] - hc_bbox.y1)
           : p \in instances}

\* ------------------------------------------- HoleProcessor.insert_holes
LayerIndices == [i \in 1..NumLayers |-> i]

RECURSIVE ScanLayers(_, _)
ScanLayers(cell, i) ==
    IF i > Len(LayerIndices) THEN None
    ELSE IF cell[LayerIndices[i]] # {} THEN LayerIndices[i]
    ELSE ScanLayers(cell, i + 1)

RECURSIVE ScanLayersDown(_, _)
ScanLayersDown(cell, i) ==
    IF i < 1 THEN None
    ELSE IF cell[LayerIndices[i]] # {} THEN LayerIndices[i]
    ELSE ScanLayersDown(cell, i - 1)

\* the loop without its break: the last layer with shapes wins
LastShapeLayer(cell) == ScanLayersDown(cell, Len(LayerIndices))

\* for layer in layer_indices(): if shapes(layer).size() > 0: target_layer = layer; break
FirstShapeLayer(cell) == ScanLayers(cell, 1)

\* ------------------------------------------------------------------- inputs
Strip(len) == Pixels(Box(0, 0, len, 1))

Slab(len, horizontal) ==
    IF horizontal THEN Pixels(Box(0, 0, len, 2)) ELSE Pixels(Box(0, 0, 2, len))

HoleA == Shifted(Strip(30), 90, 0)

ExcludeB == Shifted(Strip(5), 100, 0)

IdleWorker == [stage |-> "idle", tile |-> <<0, 0>>, region |-> {}, snap |-> {}]

\* the state before hole_tiled is called
InitCall ==
    /\ top = orig
    /\ pc = "start"
    /\ frame = EmptyBox
    /\ tile_size = <<0, 0>>
    /\ tp_inputs = <<>>
    /\ row_step = <<0, 0>>
    /\ col_step = <<0, 0>>
    /\ hc_bbox = EmptyBox
    /\ queue_str = NoQueue
    /\ temp_hc = [l \in Layers |-> {}]
    /\ buf = {}
    /\ tempDepth = 0
    /\ hostDepth = 0
    /\ pending = {}
    /\ thr = [t \in 1..MaxThreads |-> IdleWorker]
    /\ target_layer = None
    /\ hole_pattern = {}
    /\ original_region = {}
    /\ final_region = {}
    /\ warnings = 0
    /\ exc = "none"
    /\ insertCalls = 0
    /\ tilesDone = {}

\* runs on several workers: any hole cell, one hole layer or none
InitWorkers ==
    /\ dbuDen = 1
    /\ hcell \in [Layers -> {{}, {<<0, 0>>}}]
    /\ orig \in {[l \in Layers |-> IF l = a THEN Strip(FrameLen \div 2)
                                  ELSE Strip(FrameLen)] : a \in Layers}
    /\ hole_layers \in {<<>>} \cup {<<<<l, 0>>>> : l \in 1..2}
    /\ hole_regions = <<>>
    /\ exclude_layers = <<>>
    /\ exclude_regions = <<>>
    /\ x_space = 0
    /\ y_space = 0
    /\ n_threads \in 1..MaxThreads
    /\ bindLast = TRUE

\* lattices: hole cells of 1x1, 2x1 and 1x2 dbu, spacings off the dbu grid
InitLattice ==
    /\ dbuDen \in 1..2
    /\ hcell \in {[l \in Layers |-> IF l = 1 THEN s ELSE {}] :
                    s \in {{<<0, 0>>}, {<<0, 0>>, <<1, 0>>}, {<<0, 0>>, <<0, 1>>}}}
    /\ orig \in {[l \in Layers |-> IF l = 1 THEN Slab(FrameLen, h) ELSE {}] :
                    h \in BOOLEAN}
    /\ hole_layers = <<<<1, 0>>>>
    /\ hole_regions = <<>>
    /\ exclude_layers = <<>>
    /\ exclude_regions = <<>>
    /\ x_space \in 0..MaxSpace
    /\ y_space \in {0, x_space}
    /\ n_threads = 1
    /\ bindLast = TRUE

\* region algebra: hole and excluded layers and regions with their keepouts
InitAlgebra ==
    /\ dbuDen = 1
    /\ hcell = [l \in Layers |-> IF l = 1 THEN {<<0, 0>>} ELSE {}]
    /\ orig = [l \in Layers |-> IF l = 1 THEN Strip(FrameLen)
                               ELSE IF l = 2 THEN Shifted(Strip(10), 50, 0)
                               ELSE Shifted(Strip(FrameLen \div 2), 20, 0)]
    /\ hole_layers \in {<<>>} \cup {<<<<3, k>>>> : k \in 0..MaxKeepout}
    /\ hole_regions \in {<<>>} \cup {<<<<HoleA, k>>>> : k \in 0..MaxKeepout}
    /\ exclude_layers \in {<<>>} \cup {<<<<2, k>>>> : k \in {0, MaxKeepout}}
    /\ exclude_regions \in {<<>>} \cup {<<<<ExcludeB, k>>>> : k \in {0, MaxKeepout}}
    /\ x_space = 0
    /\ y_space = 0
    /\ n_threads = 1
    /\ bindLast \in BOOLEAN

Init == (InitWorkers \/ InitLattice \/ InitAlgebra) /\ InitCall

\* ------------------------------------------------------------------ actions
\* hole_tiled up to the dispatch: frame, tile size, inputs, steps, the
\* HoleProcessor (scratch layout, start_changes), the queued expression
Setup ==
    /\ pc = "start"
    /\ LET bbox == Bbox(AllShapes(hcell))
       IN /\ frame' = FrameOf(Bbox(AllShapes(top)), hole_regions, 1)
          /\ tile_size' = TileSizeOf(bbox, x_space, y_space)
          /\ tp_inputs' = InputsOf(hole_layers, hole_regions,
                                   exclude_layers, exclude_regions)
          /\ row_step' = RowStepOf(bbox, x_space)
          /\ col_step' = ColStepOf(bbox, y_space)
          /\ hc_bbox' = bbox
          /\ temp_hc' = hcell
          /\ buf' = {}
          /\ tempDepth' = tempDepth + 1
          /\ IF HasHoleInputs
             THEN /\ queue_str' = QueueOf(hole_layers, hole_regions,
                                          exclude_layers, exclude_regions, bbox)
                  /\ hostDepth' = hostDepth + 1
                  /\ pending' = TileIndices(frame', tile_size')
                  /\ pc' = "dispatch"
             ELSE /\ UNCHANGED <<queue_str, hostDepth, pending>>
                  /\ pc' = "done"
    /\ UNCHANGED <<inputVars, finalVars, top, thr, warnings, exc, insertCalls,
                   tilesDone>>

\* a worker takes the next tile, evaluates the expression and enters put:
\* fill_region reads the instances of the scratch cell
TileStart(t) ==
    /\ pc = "dispatch"
    /\ t <= n_threads
    /\ thr[t].stage = "idle"
    /\ pending # {}
    /\ LET tile == NextTile(pending)
       IN /\ pending' = pending \ {tile}
          /\ thr' = [thr EXCEPT ![t] =
                       [stage |-> "stamp", tile |-> tile,
                        region |-> EvalQueue(queue_str, tp_inputs, top, frame,
                                             TileBox(frame, tile_size, tile),
                                             bindLast),
                        snap |-> buf]]
    /\ UNCHANGED <<inputVars, setupVars, finalVars, top, pc, buf, tempDepth,
                   hostDepth, warnings, exc, insertCalls, tilesDone>>

\* fill_region writes the instances back and put returns
TileFinish(t) ==
    /\ pc = "dispatch"
    /\ thr[t].stage = "stamp"
    /\ buf' = thr[t].snap \cup Stamp(thr[t].region,
                                     TileBox(frame, tile_size, thr[t].tile))
    /\ tilesDone' = tilesDone \cup {thr[t].tile}
    /\ thr' = [thr EXCEPT ![t] = IdleWorker]
    /\ UNCHANGED <<inputVars, setupVars, finalVars, top, pc, tempDepth,
                   hostDepth, pending, warnings, exc, insertCalls>>

\* the dispatcher returns once the job queue is empty, workers still running
AllHandedOut == pending = {}

\* every tile has been handed out and every worker has returned
AllJoined == pending = {} /\ \A t \in 1..MaxThreads : thr[t].stage = "idle"

\* tp.execute returns
Join ==
    /\ pc = "dispatch"
    /\ AllJoined
    /\ pc' = "finalize"
    /\ UNCHANGED <<inputVars, setupVars, finalVars, top, buf, tempDepth,
                   hostDepth, pending, thr, warnings, exc, insertCalls,
                   tilesDone>>

\* the geometry kernel fails in a tile: tp.execute raises
FailDispatch ==
    /\ pc = "dispatch"
    /\ ~AllJoined
    /\ exc' = "dispatch"
    /\ pc' = "finally"
    /\ UNCHANGED <<inputVars, setupVars, finalVars, top, buf, tempDepth,
                   hostDepth, pending, thr, warnings, insertCalls, tilesDone>>

\* insert_holes up to the subtraction
InsertBegin ==
    /\ pc = "finalize"
    /\ insertCalls' = insertCalls + 1
    /\ tempDepth' = tempDepth - 1
    /\ target_layer' = FirstShapeLayer(hcell)
    /\ IF target_layer' = None
       THEN /\ warnings' = warnings + 1
            /\ pc' = "finally"
            /\ UNCHANGED <<hole_pattern, original_region, final_region>>
       ELSE /\ hole_pattern' = PatternOf(buf, target_layer')
            /\ original_region' = top[target_layer']
            /\ final_region' = original_region' \ hole_pattern'
            /\ pc' = "clear"
            /\ UNCHANGED warnings
    /\ UNCHANGED <<inputVars, setupVars, top, buf, hostDepth, pending, thr,
                   exc, tilesDone>>

\* self.top_cell.shapes(target_layer).clear()
Clear ==
    /\ pc = "clear"
    /\ top' = [top EXCEPT ![target_layer] = {}]
    /\ pc' = "insert"
    /\ UNCHANGED <<inputVars, setupVars, finalVars, buf, tempDepth, hostDepth,
                   pending, thr, warnings, exc, insertCalls, tilesDone>>

\* self.top_cell.shapes(target_layer).insert(final_region)
Insert ==
    /\ pc = "insert"
    /\ top' = [top EXCEPT ![target_layer] = @ \cup final_region]
    /\ pc' = "finally"
    /\ UNCHANGED <<inputVars, setupVars, finalVars, buf, tempDepth, hostDepth,
                   pending, thr, warnings, exc, insertCalls, tilesDone>>

\* the insert raises
FailInsert ==
    /\ pc = "insert"
    /\ exc' = "insert"
    /\ pc' = "finally"
    /\ UNCHANGED <<inputVars, setupVars, finalVars, top, buf, tempDepth,
                   hostDepth, pending, thr, warnings, insertCalls, tilesDone>>

\* finally: c.kcl.end_changes()
Finally ==
    /\ pc = "finally"
    /\ hostDepth' = hostDepth - 1
    /\ pc' = "done"
    /\ UNCHANGED <<inputVars, setupVars, finalVars, top, buf, tempDepth,
                   pending, thr, warnings, exc, insertCalls, tilesDone>>

Next ==
    \/ Setup
    \/ \E t \in 1..MaxThreads : TileStart(t)
    \/ \E t \in 1..MaxThreads : TileFinish(t)
    \/ Join
    \/ FailDispatch
    \/ InsertBegin
    \/ Clear
    \/ Insert
    \/ FailInsert
    \/ Finally

Spec == Init /\ [][Next]_vars

\* ------------------------------------------------------------- properties
\* what one tile stamps, and what the whole frame stamps as a single tile
TileStamps(t) ==
    Stamp(EvalQueue(queue_str, tp_inputs, top, frame,
                    TileBox(frame, tile_size, t), bindLast),
          TileBox(frame, tile_size, t))

FrameStamps == Stamp(EvalQueue(queue_str, tp_inputs, top, frame, frame, bindLast), frame)

Footprint(p) == Pixels(Box(p[1], p[2], p[1] + Width(hc_bbox), p[2] + Height(hc_bbox)))

\* the union of the inputs of a list, each grown by its own keepout
GrownLayers(list, cell) ==
    UNION {Sized(cell[list[i][1]], ToDbu(list[i][2])) : i \in 1..Len(list)}

GrownRegions(list) ==
    UNION {Sized(list[i][1], ToDbu(list[i][2])) : i \in 1..Len(list)}

\* D & frame & H minus X for a tile
AdmissibleArea(tile) ==
    LET H == GrownLayers(hole_layers, top) \cup GrownRegions(hole_regions)
        X == GrownLayers(exclude_layers, top) \cup GrownRegions(exclude_regions)
        D == MinkowskiSum(tile, BoxNew(0, 0, Width(hc_bbox) - 1, Height(hc_bbox) - 1))
    IN {p \in H : InBox(p, D) /\ InBox(p, frame)} \ X

\* the area the code computes over all tiles for given hole inputs
CodeArea(hl, hr) ==
    LET f == FrameOf(Bbox(AllShapes(top)), hr, 1)
        q == QueueOf(hl, hr, exclude_layers, exclude_regions, hc_bbox)
        inputs == InputsOf(hl, hr, exclude_layers, exclude_regions)
    IN UNION {EvalQueue(q, inputs, top, f, TileBox(f, tile_size, t), bindLast)
              : t \in TileIndices(f, tile_size)}

WithKeepout(list, i, k) == [list EXCEPT ![i] = <<@[1], k>>]

Nearest(step, extent, space) ==
    LET exact == extent * Sub + space * dbuDen
        d == step * Sub - exact
    IN 2 * (IF d < 0 THEN -d ELSE d) <= Sub

\* C1: the target layer of the destination cell is, in every state of a run,
\* either the original shape set or original minus the accumulated hole
\* pattern, and after a failed run it is the original.
AllOrNothing ==
    LET T == FirstShapeLayer(hcell)
    IN /\ T # None =>
            \/ top[T] = orig[T]
            \/ top[T] = orig[T] \ PatternOf(buf, T)
       /\ (pc = "done" /\ exc # "none") => top = orig

\* C2: with one worker, the instances stamped tile by tile are exactly the
\* instances stamped when the whole frame is one tile.
SeamContinuity ==
    (pc = "finalize" /\ n_threads = 1) => buf = FrameStamps

ExclusionCorrect ==
    /\ \A t \in 1..MaxThreads :
          thr[t].stage = "stamp" =>
             thr[t].region = AdmissibleArea(TileBox(frame, tile_size, thr[t].tile))
    /\ \A p \in buf :
          Footprint(p) \cap (GrownLayers(exclude_layers, top)
                             \cup GrownRegions(exclude_regions)) = {}

\* C5: raising the keepout of a hole layer or of a hole region does not
\* enlarge the admissible area.
KeepoutMonotone ==
    pc = "dispatch" =>
       \A k \in 0..MaxKeepout :
          /\ \A i \in 1..Len(hole_layers) :
                k >= hole_layers[i][2] =>
                   CodeArea(WithKeepout(hole_layers, i, k), hole_regions)
                      \subseteq CodeArea(hole_layers, hole_regions)
          /\ \A i \in 1..Len(hole_regions) :
                k >= hole_regions[i][2] =>
                   CodeArea(hole_layers, WithKeepout(hole_regions, i, k))
                      \subseteq CodeArea(hole_layers, hole_regions)

TargetLayerDiscovery ==
    /\ target_layer # None =>
          \E i \in 1..Len(LayerIndices) :
             /\ LayerIndices[i] = target_layer
             /\ hcell[target_layer] # {}
             /\ \A j \in 1..(i - 1) : hcell[LayerIndices[j]] = {}
    /\ (insertCalls = 1 /\ target_layer = None) => AllShapes(hcell) = {}
    /\ pc \in {"clear", "insert"} =>
          /\ hole_pattern = PatternOf(buf, target_layer)
          /\ original_region = orig[target_layer]
    /\ \A l \in Layers : l # target_layer => top[l] = orig[l]
    /\ (pc = "done" /\ exc = "none" /\ target_layer # None) =>
          top[target_layer] = orig[target_layer] \ PatternOf(buf, target_layer)

FirstOfSeveralLayers ==
    /\ pc = "done"
    /\ exc = "none"
    /\ target_layer = 2
    /\ hcell[3] # {}
    /\ top[2] # orig[2]

NoCallbackRunning ==
    pending = {} /\ \A t \in 1..MaxThreads : thr[t].stage = "idle"

\* C8 as stated: every run calls insert_holes exactly once, after every tile
\* callback has returned, and nothing writes the target before it.
CompositorRunsOnce ==
    /\ insertCalls >= 1 => (NoCallbackRunning /\ tilesDone = TileIndices(frame, tile_size))
    /\ insertCalls = 0 => top = orig
    /\ (pc = "done" /\ exc = "none") => insertCalls = 1

PhaseState ==
    /\ insertCalls <= 1
    /\ insertCalls = 1 => (NoCallbackRunning /\ tilesDone = TileIndices(frame, tile_size))
    /\ insertCalls = 0 => top = orig
    /\ pc = "done" =>
          insertCalls = (IF Len(hole_layers) + Len(hole_regions) > 0 /\ exc # "dispatch"
                         THEN 1 ELSE 0)

PhaseStep ==
    /\ hcell' = hcell
    /\ insertCalls >= 1 => buf' = buf
    /\ insertCalls' = 0 => top' = top

\* C8 as amended: insert_holes runs at most once, and exactly once in the runs
\* that are given a hole layer or region and whose dispatch does not fail;
\* it runs only after every tile callback has returned; before it nothing
\* writes the target cell or the hole cell, after it nothing is stamped.
PhaseOrdering == [](PhaseState) /\ [][PhaseStep]_vars

CompositorAfterTiles ==
    /\ pc = "done"
    /\ insertCalls = 1
    /\ Cardinality(tilesDone) >= 2
    /\ n_threads >= 2
    /\ top # orig

\* C9: row_step = (round((hw + x_space)/dbu), 0) and
\* column_step = (0, round((hh + y_space)/dbu)), non-negative, and the
\* bounding-box extent when the spacing is zero.
LatticeStepRounded ==
    pc # "start" =>
       /\ row_step[2] = 0 /\ col_step[1] = 0
       /\ row_step[1] >= 0 /\ col_step[2] >= 0
       /\ Nearest(row_step[1], Width(hc_bbox), x_space)
       /\ Nearest(col_step[2], Height(hc_bbox), y_space)
       /\ x_space = 0 => row_step[1] = Width(hc_bbox)
       /\ y_space = 0 => col_step[2] = Height(hc_bbox)

\* C10: when hole_tiled is left, every start_changes on the host layout and
\* on the scratch layout has been matched by an end_changes.
BalancedBrackets ==
    pc = "done" => (tempDepth = 0 /\ hostDepth = 0)

====
